---- MODULE Spec2Model ----
(***************************************************************************)
(* HFTAnalyzer (python_analytics/analyze_results.py): the analytics        *)
(* pipeline load_data -> preprocess_data -> calculate_performance_metrics  *)
(* -> plots -> generate_report, as run by run_analysis.                    *)
(*                                                                         *)
(* Numbers.  A cell or a metric is a record [k, s, n, d]:                  *)
(*   k = "num"     the rational n/d (d > 0, reduced)                       *)
(*   k = "nan"     IEEE NaN (pandas' missing value)                        *)
(*   k = "neginf"  -inf,  k = "posinf"  +inf                               *)
(*   k = "pos"     some finite number > 0 whose magnitude is not tracked   *)
(*   k = "neg"     some finite number < 0 whose magnitude is not tracked   *)
(*   k = "str"     the string s (a Side cell as read from the CSV file)    *)
(* TotalPnL, Price, Quantity and Timestamp cells of the input are small    *)
(* integers, so every sum, difference and comparison below is exact in     *)
(* IEEE doubles as well; a quotient is kept as an exact rational.          *)
(***************************************************************************)
EXTENDS Integers, Sequences, FiniteSets, TLC

VARIABLES files, pnl_data, trade_data, orderbook_data, performance_metrics,
          pc, error, artifacts

vars == <<files, pnl_data, trade_data, orderbook_data, performance_metrics,
          pc, error, artifacts>>

(* ------------------------------ bounds --------------------------------- *)
MaxRows == 2

PnlValues == {-1, 0, 1}
TimeValues == {1, 2}
PriceValues == {1, 2}
QuantityValues == {1, 2}
SideStrings == {"BUY", "SELL", "HOLD"}

(* ------------------------------ numbers -------------------------------- *)
Abs(x) == IF x < 0 THEN -x ELSE x

RECURSIVE GCD(_, _)
GCD(a, b) == IF b = 0 THEN a ELSE GCD(b, a % b)

NaN == [k |-> "nan", s |-> "", n |-> 0, d |-> 1]
NegInf == [k |-> "neginf", s |-> "", n |-> 0, d |-> 1]
PosInf == [k |-> "posinf", s |-> "", n |-> 0, d |-> 1]
SomePositive == [k |-> "pos", s |-> "", n |-> 0, d |-> 1]
SomeNegative == [k |-> "neg", s |-> "", n |-> 0, d |-> 1]
Str(x) == [k |-> "str", s |-> x, n |-> 0, d |-> 1]

\* The rational a/b with b # 0, sign carried by the numerator, reduced.
Rat(a, b) ==
    LET g == GCD(Abs(a), Abs(b))
        sg == IF b < 0 THEN -1 ELSE 1
    IN [k |-> "num", s |-> "", n |-> (sg * a) \div g, d |-> (sg * b) \div g]

Num(x) == Rat(x, 1)

\* IEEE division of two integers-as-doubles: x/0 is NaN, +inf or -inf.
Div(a, b) ==
    IF b # 0 THEN Rat(a, b)
    ELSE IF a = 0 THEN NaN
    ELSE IF a > 0 THEN PosInf ELSE NegInf

IsNaN(v) == v.k = "nan"
IsFinite(v) == v.k \in {"num", "pos", "neg"}

\* v < w for two values that are not NaN
Less(v, w) ==
    IF v.k = "neginf" THEN w.k # "neginf"
    ELSE IF w.k = "posinf" THEN v.k # "posinf"
    ELSE IF v.k = "posinf" \/ w.k = "neginf" THEN FALSE
    ELSE v.n * w.d < w.n * v.d

\* v > 0 as Python evaluates it (False for NaN)
GreaterThanZero(v) ==
    \/ v.k \in {"pos", "posinf"}
    \/ v.k = "num" /\ v.n > 0

(* ------------------------------ tables --------------------------------- *)
\* A DataFrame: its columns, its index ("RangeIndex" or "Timestamp") and
\* its rows in file order.  None is Python's None.
None == [columns |-> {}, index |-> "None", rows |-> <<>>]

PnlRows(times) ==
    [Timestamp : times, TotalPnL : PnlValues, DailyPnL : {NaN, Num(1)},
     CumulativePnL : {0}]

\* What pd.read_csv returns for a PnL file of len rows: header
\* Timestamp,TotalPnL,DailyPnL (Timestamp optional), then the rows.
PnlFiles(len) ==
    {[columns |-> {"Timestamp", "TotalPnL", "DailyPnL"}, index |-> "RangeIndex",
      rows |-> r] : r \in [1..len -> PnlRows(TimeValues)]}
    \cup
    {[columns |-> {"TotalPnL", "DailyPnL"}, index |-> "RangeIndex",
      rows |-> r] : r \in [1..len -> PnlRows({0})]}

TradeRows(times) ==
    [Timestamp : times, Price : PriceValues, Quantity : QuantityValues,
     Side : {Str(x) : x \in SideStrings}, TradeValue : {0}]

\* What pd.read_csv returns for a trade file of len rows.
TradeFiles(len) ==
    {[columns |-> {"Timestamp", "Price", "Quantity", "Side"}, index |-> "RangeIndex",
      rows |-> r] : r \in [1..len -> TradeRows({1})]}
    \cup
    {[columns |-> {"Price", "Quantity", "Side"}, index |-> "RangeIndex",
      rows |-> r] : r \in [1..len -> TradeRows({0})]}

\* The order-book table is loaded and never read again.
OrderbookFiles ==
    {[columns |-> {"Timestamp"}, index |-> "RangeIndex", rows |-> <<>>]}

\* a file with no row, or no file at all
OrNone(len) == IF len = 0 THEN {None} ELSE {}

\* The empty dict {}.
EmptyMap == [x \in {} |-> NaN]

(* __init__: nothing loaded, no metrics.  The data directory holds at most *)
(* one file of each kind, with at most MaxRows rows in the PnL and the     *)
(* trade file together.                                                    *)
Init ==
    /\ \E np \in 0..MaxRows : \E nt \in 0..(MaxRows - np) :
         files \in [pnl : PnlFiles(np) \cup OrNone(np),
                    trade : TradeFiles(nt) \cup OrNone(nt),
                    orderbook : OrderbookFiles \cup {None}]
    /\ pnl_data = None
    /\ trade_data = None
    /\ orderbook_data = None
    /\ performance_metrics = EmptyMap
    /\ pc = "start"
    /\ error = "none"
    /\ artifacts = {}

(* --------------------------- preprocess_data --------------------------- *)
\* pd.to_datetime + set_index('Timestamp'): the column becomes the index and
\* leaves the columns; the rows keep their file order.
SetTimestampIndex(t) ==
    IF "Timestamp" \in t.columns
    THEN [t EXCEPT !.columns = @ \ {"Timestamp"}, !.index = "Timestamp"]
    ELSE t

RECURSIVE SumTotalPnL(_, _)
SumTotalPnL(rows, i) ==
    IF i = 0 THEN 0 ELSE rows[i].TotalPnL + SumTotalPnL(rows, i - 1)

\* Series.fillna(0) on one cell
FillNa0(v) == IF IsNaN(v) THEN Num(0) ELSE v

PreprocessPnl(t) ==
    IF t = None THEN None
    ELSE LET t1 == SetTimestampIndex(t)
         IN [t1 EXCEPT
               !.columns = @ \cup {"CumulativePnL"},
               !.rows = [i \in 1..Len(t1.rows) |->
                           [t1.rows[i] EXCEPT
                              !.CumulativePnL = SumTotalPnL(t1.rows, i),
                              !.DailyPnL = FillNa0(@)]]]

\* Series.map({'BUY': 1, 'SELL': -1}) on one cell: a value that is no key of
\* the dict maps to NaN.
SideMap(c) ==
    IF c = Str("BUY") THEN Num(1)
    ELSE IF c = Str("SELL") THEN Num(-1)
    ELSE NaN

PreprocessTrade(t) ==
    IF t = None THEN None
    ELSE LET t1 == SetTimestampIndex(t)
         IN [t1 EXCEPT
               !.columns = @ \cup {"TradeValue"},
               !.rows = [i \in 1..Len(t1.rows) |->
                           [t1.rows[i] EXCEPT
                              !.TradeValue = t1.rows[i].Price * t1.rows[i].Quantity,
                              !.Side = SideMap(@)]]]

(* --------------------- calculate_performance_metrics ------------------- *)
PnlKeys == {"TotalPnL", "MaxPnL", "MinPnL", "MaxDrawdown", "Volatility", "SharpeRatio"}
TradeKeys == {"TotalTrades", "BuyTrades", "SellTrades", "TotalVolume",
              "AvgTradeSize", "AvgTradePrice", "PriceRange"}

MaxOf(S) == CHOOSE x \in S : \A y \in S : y <= x
MinOf(S) == CHOOSE x \in S : \A y \in S : x <= y

\* cumulative.expanding().max() at row i
RunningMax(rows, i) == MaxOf({rows[j].CumulativePnL : j \in 1..i})

\* (cumulative - running_max) / running_max at row i
Drawdown(rows, i) ==
    Div(rows[i].CumulativePnL - RunningMax(rows, i), RunningMax(rows, i))

\* Series.min(): NaN entries are skipped; NaN when nothing is left.
SeriesMin(S) ==
    LET D == {v \in S : ~IsNaN(v)}
    IN IF D = {} THEN NaN
       ELSE CHOOSE v \in D : \A w \in D : ~Less(w, v)

MaxDrawdownOf(rows) == SeriesMin({Drawdown(rows, i) : i \in 1..Len(rows)})

\* pct_change() at row i >= 2: TotalPnL[i] / TotalPnL[i-1] - 1
PctChange(rows, i) ==
    LET prev == rows[i - 1].TotalPnL
        cur == rows[i].TotalPnL
    IN IF prev # 0 THEN Rat(cur - prev, prev) ELSE Div(cur, prev)

\* pct_change().dropna(): row 1 is NaN and dropped, as is every 0/0; the
\* result is the set of row numbers kept.
ReturnRows(rows) == {i \in 2..Len(rows) : ~IsNaN(PctChange(rows, i))}

\* returns.std() * sqrt(252): the sample standard deviation (ddof = 1) is NaN
\* with fewer than two returns or with an infinite return; otherwise it is 0
\* when all returns are equal and positive when they are not.
VolatilityOf(rows) ==
    LET R == ReturnRows(rows)
    IN IF Cardinality(R) < 2 THEN NaN
       ELSE IF \E i \in R : ~IsFinite(PctChange(rows, i)) THEN NaN
       ELSE IF \A i, j \in R : PctChange(rows, i) = PctChange(rows, j) THEN Num(0)
       ELSE SomePositive

RECURSIVE RatSum(_, _)
\* the sum of the finite rationals f[i], i in S, as a pair <<n, d>>
RatSum(f, S) ==
    IF S = {} THEN <<0, 1>>
    ELSE LET i == CHOOSE x \in S : TRUE
             r == RatSum(f, S \ {i})
         IN <<r[1] * f[i].d + f[i].n * r[2], r[2] * f[i].d>>

\* (returns.mean() * 252) / Volatility when Volatility > 0, else 0
SharpeRatioOf(rows) ==
    IF GreaterThanZero(VolatilityOf(rows))
    THEN LET R == ReturnRows(rows)
             sum == RatSum([i \in R |-> PctChange(rows, i)], R)
         IN IF sum[1] > 0 THEN SomePositive
            ELSE IF sum[1] < 0 THEN SomeNegative
            ELSE Num(0)
    ELSE Num(0)

\* lines 107-125, for a PnL table with at least one row
PnlMetricsOf(t) ==
    LET rows == t.rows
        totals == {rows[i].TotalPnL : i \in 1..Len(rows)}
    IN [x \in PnlKeys |->
          CASE x = "TotalPnL" -> Num(rows[Len(rows)].TotalPnL)
            [] x = "MaxPnL" -> Num(MaxOf(totals))
            [] x = "MinPnL" -> Num(MinOf(totals))
            [] x = "MaxDrawdown" -> MaxDrawdownOf(rows)
            [] x = "Volatility" -> VolatilityOf(rows)
            [] x = "SharpeRatio" -> SharpeRatioOf(rows)]

RECURSIVE SumColumn(_, _, _)
SumColumn(rows, col, i) ==
    IF i = 0 THEN 0 ELSE rows[i][col] + SumColumn(rows, col, i - 1)

\* Series.mean(): NaN for an empty column
MeanColumn(rows, col) == Div(SumColumn(rows, col, Len(rows)), Len(rows))

\* Series.max() - Series.min(): NaN for an empty column
RangeColumn(rows, col) ==
    LET S == {rows[i][col] : i \in 1..Len(rows)}
    IN IF S = {} THEN NaN ELSE Num(MaxOf(S) - MinOf(S))

\* len(trade_data[trade_data['Side'] == v])
CountSide(rows, v) == Cardinality({i \in 1..Len(rows) : rows[i].Side = Num(v)})

\* lines 129-139
TradeMetricsOf(t) ==
    LET rows == t.rows
    IN [x \in TradeKeys |->
          CASE x = "TotalTrades" -> Num(Len(rows))
            [] x = "BuyTrades" -> Num(CountSide(rows, 1))
            [] x = "SellTrades" -> Num(CountSide(rows, -1))
            [] x = "TotalVolume" -> Num(SumColumn(rows, "Quantity", Len(rows)))
            [] x = "AvgTradeSize" -> MeanColumn(rows, "Quantity")
            [] x = "AvgTradePrice" -> MeanColumn(rows, "Price")
            [] x = "PriceRange" -> RangeColumn(rows, "Price")]

\* PnlMetrics with the guard lost: a table that is None yields zeros
PnlMetrics_placeholder(t) ==
    IF t = None THEN [x \in PnlKeys |-> Num(0)] ELSE PnlMetricsOf(t)

\* the block guarded by `if self.pnl_data is not None`
PnlMetrics(t) == IF t = None THEN EmptyMap ELSE PnlMetricsOf(t)

\* the block guarded by `if self.trade_data is not None`
TradeMetrics(t) == IF t = None THEN EmptyMap ELSE TradeMetricsOf(t)

\* self.pnl_data['TotalPnL'].iloc[-1] raises IndexError on a table with no row
CalcRaises(pnl) == pnl # None /\ Len(pnl.rows) = 0

\* the metrics map after a call that returns normally
CalcResult(pnl, trade, metrics) == TradeMetrics(trade) @@ PnlMetrics(pnl) @@ metrics

(* ------------------------------- actions ------------------------------- *)
\* AnyLoaded with all() in place of any()
AnyLoaded_all(pnl, trade, orderbook) ==
    pnl # None /\ trade # None /\ orderbook # None

\* load_data's result: any([pnl_data is not None, trade_data is not None,
\* orderbook_data is not None])
AnyLoaded(pnl, trade, orderbook) == pnl # None \/ trade # None \/ orderbook # None

\* run_analysis, `if not self.load_data(): return`: each table that has a
\* source file is read; with no table at all run_analysis returns.
load_data ==
    /\ pc = "start"
    /\ pnl_data' = files.pnl
    /\ trade_data' = files.trade
    /\ orderbook_data' = files.orderbook
    /\ pc' = IF AnyLoaded(files.pnl, files.trade, files.orderbook)
             THEN "loaded" ELSE "aborted"
    /\ UNCHANGED <<files, performance_metrics, error, artifacts>>

\* what one call of preprocess_data does to the two tables
PreprocessEffect ==
    /\ pnl_data' = PreprocessPnl(pnl_data)
    /\ trade_data' = PreprocessTrade(trade_data)
    /\ UNCHANGED <<files, orderbook_data, performance_metrics, error, artifacts>>

preprocess_data ==
    /\ pc = "loaded"
    /\ PreprocessEffect
    /\ pc' = "preprocessed"

calculate_performance_metrics ==
    /\ pc = "preprocessed"
    /\ IF CalcRaises(pnl_data)
       THEN /\ pc' = "crashed"
            /\ error' = "IndexError"
            /\ UNCHANGED performance_metrics
       ELSE /\ pc' = "calculated"
            /\ performance_metrics' =
                 CalcResult(pnl_data, trade_data, performance_metrics)
            /\ UNCHANGED error
    /\ UNCHANGED <<files, pnl_data, trade_data, orderbook_data, artifacts>>

plot_pnl_curve ==
    /\ pc = "calculated"
    /\ pc' = "pnl_plotted"
    /\ artifacts' = IF pnl_data = None THEN artifacts
                    ELSE artifacts \cup {"pnl_curve.png"}
    /\ UNCHANGED <<files, pnl_data, trade_data, orderbook_data,
                   performance_metrics, error>>

\* trade_data['Side'].value_counts(): the distinct values, NaN left out
SideCounts(t) == {t.rows[i].Side : i \in 1..Len(t.rows)} \ {NaN}

\* DataFrame.resample('1T') raises TypeError unless the index is the
\* Timestamp index; ax4.pie(values, labels=['Sell', 'Buy']) raises ValueError
\* unless there are exactly two values.
PlotTradeError(t) ==
    IF t.index # "Timestamp" THEN "TypeError"
    ELSE IF Cardinality(SideCounts(t)) # 2 THEN "ValueError"
    ELSE "none"

plot_trade_analysis ==
    /\ pc = "pnl_plotted"
    /\ IF trade_data = None
       THEN pc' = "trade_plotted" /\ UNCHANGED <<artifacts, error>>
       ELSE IF PlotTradeError(trade_data) # "none"
       THEN /\ pc' = "crashed"
            /\ error' = PlotTradeError(trade_data)
            /\ UNCHANGED artifacts
       ELSE /\ pc' = "trade_plotted"
            /\ artifacts' = artifacts \cup {"trade_analysis.png"}
            /\ UNCHANGED error
    /\ UNCHANGED <<files, pnl_data, trade_data, orderbook_data, performance_metrics>>

plot_performance_dashboard ==
    /\ pc = "trade_plotted"
    /\ IF DOMAIN performance_metrics = {}
       THEN pc' = "dashboard_plotted" /\ UNCHANGED <<artifacts, error>>
       ELSE IF trade_data # None /\ trade_data.index # "Timestamp"
       THEN /\ pc' = "crashed"
            /\ error' = "TypeError"
            /\ UNCHANGED artifacts
       ELSE /\ pc' = "dashboard_plotted"
            /\ artifacts' = artifacts \cup {"performance_dashboard.png"}
            /\ UNCHANGED error
    /\ UNCHANGED <<files, pnl_data, trade_data, orderbook_data, performance_metrics>>

generate_report ==
    /\ pc = "dashboard_plotted"
    /\ pc' = "reported"
    /\ artifacts' = IF DOMAIN performance_metrics = {} THEN artifacts
                    ELSE artifacts \cup {"analysis_report.txt"}
    /\ UNCHANGED <<files, pnl_data, trade_data, orderbook_data,
                   performance_metrics, error>>

\* the summary lines that end run_analysis
print_summary ==
    /\ pc = "reported"
    /\ pc' = "done"
    /\ UNCHANGED <<files, pnl_data, trade_data, orderbook_data,
                   performance_metrics, error, artifacts>>

\* one run of run_analysis
Next ==
    \/ load_data
    \/ preprocess_data
    \/ calculate_performance_metrics
    \/ plot_pnl_curve
    \/ plot_trade_analysis
    \/ plot_performance_dashboard
    \/ generate_report
    \/ print_summary

Spec == Init /\ [][Next]_vars

\* A caller of the class that calls preprocess_data again on the tables it
\* has already normalized, before it computes the metrics.
preprocess_data_again ==
    /\ pc = "preprocessed"
    /\ PreprocessEffect
    /\ pc' = "preprocessed"

NextAPI == Next \/ preprocess_data_again

SpecAPI == Init /\ [][NextAPI]_vars

(* ------------------------------- claims -------------------------------- *)
Metric(x) == performance_metrics[x]
Has(x) == x \in DOMAIN performance_metrics
NoSource == files.pnl = None /\ files.trade = None /\ files.orderbook = None

\* C1: once the metrics of a trade table with at least one row are computed,
\* TotalTrades = BuyTrades + SellTrades, whatever the Side strings were.
C1_TotalIsBuyPlusSell ==
    (Has("TotalTrades") /\ Len(trade_data.rows) >= 1) =>
        Metric("TotalTrades").n = Metric("BuyTrades").n + Metric("SellTrades").n

\* v <= 0 (false for NaN)
NonPositive(v) == v.k = "neginf" \/ (v.k = "num" /\ v.n <= 0)

NonDecreasing(rows) ==
    \A i \in 1..Len(rows) - 1 : rows[i].TotalPnL <= rows[i + 1].TotalPnL

\* C2: the MaxDrawdown stored for a PnL table with at least one row is <= 0,
\* and it is 0 when the TotalPnL column is non-decreasing.
C2_MaxDrawdownNonPositive ==
    Has("MaxDrawdown") =>
        /\ NonPositive(Metric("MaxDrawdown"))
        /\ NonDecreasing(pnl_data.rows) => Metric("MaxDrawdown") = Num(0)

\* C3: a second call of preprocess_data on the tables it has normalized
\* leaves both tables as they are, and the metrics computed from them too.
C3_Idempotent ==
    [][(pc = "preprocessed" /\ pc' = "preprocessed") =>
          /\ pnl_data' = pnl_data
          /\ trade_data' = trade_data
          /\ CalcRaises(pnl_data') = CalcRaises(pnl_data)
          /\ ~CalcRaises(pnl_data) =>
                CalcResult(pnl_data', trade_data', performance_metrics)
                  = CalcResult(pnl_data, trade_data, performance_metrics)]_vars

\* C4: while the PnL table is absent the metrics map holds no PnL-derived
\* key, and while the trade table is absent no trade-derived key: no
\* placeholder stands for a metric whose table is missing.
C4_AbsencePropagation ==
    /\ pnl_data = None => DOMAIN performance_metrics \cap PnlKeys = {}
    /\ trade_data = None => DOMAIN performance_metrics \cap TradeKeys = {}

\* C4 witness: a run that computed the metrics with the PnL table absent
\* and the trade table present, and ran to its end.
C4_Witness ==
    /\ pc = "done"
    /\ pnl_data = None
    /\ trade_data # None
    /\ DOMAIN performance_metrics = TradeKeys

\* C5: with no source of any kind the run stops at load_data (nothing is
\* preprocessed, computed, plotted or reported and the metrics map stays
\* empty); with a source of some kind the loader does not abort the run.
C5_NoInputAborts ==
    /\ NoSource =>
          /\ pc \in {"start", "aborted"}
          /\ performance_metrics = EmptyMap
          /\ artifacts = {}
          /\ pnl_data = None /\ trade_data = None /\ orderbook_data = None
    /\ ~NoSource => pc # "aborted"

\* C5 witness: load_data has reported failure and run_analysis has returned.
C5_Witness == pc = "aborted" /\ NoSource /\ performance_metrics = EmptyMap

\* C6: no row of the normalized trade table carries a missing signed
\* direction: a Side outside {BUY, SELL} is rejected or aborts normalization.
C6_MalformedSideSurfaced ==
    trade_data # None =>
        \A i \in 1..Len(trade_data.rows) : ~IsNaN(trade_data.rows[i].Side)

ZeroPeak(rows) == \E i \in 1..Len(rows) : RunningMax(rows, i) = 0

\* C7: when the running peak of CumulativePnL is zero at some row, the
\* MaxDrawdown stored is a finite number, neither NaN nor infinite.
C7_ZeroPeakDefined ==
    (Has("MaxDrawdown") /\ ZeroPeak(pnl_data.rows)) =>
        IsFinite(Metric("MaxDrawdown"))

\* rows whose percentage change is defined: the previous TotalPnL is not 0
DefinedPctRows(rows) == {i \in 2..Len(rows) : rows[i - 1].TotalPnL # 0}

\* C8: with fewer than two rows of defined percentage change the stored
\* Volatility is 0, and SharpeRatio is 0.
C8_VolatilityZero ==
    (Has("Volatility") /\ Cardinality(DefinedPctRows(pnl_data.rows)) < 2) =>
        /\ Metric("Volatility") = Num(0)
        /\ Metric("SharpeRatio") = Num(0)

\* row j comes no later than row i in timestamp order (file order on a tie)
Before(rows, j, i) ==
    \/ rows[j].Timestamp < rows[i].Timestamp
    \/ rows[j].Timestamp = rows[i].Timestamp /\ j <= i

ChronoSum(rows, i) ==
    LET S == {j \in 1..Len(rows) : Before(rows, j, i)}
        f == [j \in S |-> Num(rows[j].TotalPnL)]
    IN RatSum(f, S)[1]

\* C9: for a PnL table indexed by Timestamp, TotalPnL is the TotalPnL of a
\* row with the latest timestamp and CumulativePnL is the running sum in
\* timestamp order, in whatever order the file lists the rows.
C9_ChronologicalLast ==
    (Has("TotalPnL") /\ pnl_data.index = "Timestamp") =>
        LET rows == pnl_data.rows
        IN /\ \E i \in 1..Len(rows) :
                /\ \A j \in 1..Len(rows) : rows[j].Timestamp <= rows[i].Timestamp
                /\ Metric("TotalPnL") = Num(rows[i].TotalPnL)
           /\ \A i \in 1..Len(rows) : rows[i].CumulativePnL = ChronoSum(rows, i)

AfterCalculate == pc \notin {"start", "aborted", "loaded", "preprocessed"}

\* C10: after calculate_performance_metrics a trade table with at least one
\* row has all seven trade metrics, whatever the PnL table is; a PnL table
\* with no row gives no PnL metric and stops nothing.
C10_IndependentGuards ==
    AfterCalculate =>
        /\ (trade_data # None /\ Len(trade_data.rows) >= 1) =>
              TradeKeys \subseteq DOMAIN performance_metrics
        /\ (pnl_data # None /\ Len(pnl_data.rows) = 0) =>
              /\ DOMAIN performance_metrics \cap PnlKeys = {}
              /\ error # "IndexError"

====
